---- MODULE Spec2Model ----
(***************************************************************************)
(* Model of LTIK.py (dummy_app): the Item records, the three statistics    *)
(* functions normalize_values, top_n_by_value and stats, the sample data   *)
(* of build_example_items and the CLI driver main.                         *)
(*                                                                         *)
(* Item.value is a Python float.  The model keeps what makes a float a     *)
(* float (a fixed number of significant bits, round-to-nearest-even on     *)
(* every operation, gradual underflow to zero, overflow to infinity, NaN)  *)
(* in a binary format of reduced width: a finite float is an integer       *)
(* count of quanta, one quantum being 2^-QuantumBits.  The two zeros 0.0   *)
(* and -0.0, which Python compares equal and sorts as equal, are one 0.    *)
(***************************************************************************)
EXTENDS Integers, Sequences, FiniteSets

VARIABLES orig, items, normalized, call, ret, st, raised, out

vars == <<orig, items, normalized, call, ret, st, raised, out>>

----------------------------------------------------------------------------
(* Bounds of the model. *)

\* significant bits of a float (53 in CPython's double)
Precision == 8
\* the smallest positive float is 2^-QuantumBits (2^-1074 in a double)
QuantumBits == 4
\* number of binades above the lowest one (2045 in a double)
ExpRange == 2
\* longest list of items drawn as an input
MaxLen == 3
\* largest --top value given to main
MaxTop == 6

----------------------------------------------------------------------------
(* Python float arithmetic. *)

RECURSIVE Pow2(_)
Pow2(k) == IF k = 0 THEN 1 ELSE 2 * Pow2(k - 1)

\* 1.0 in quanta
One == Pow2(QuantumBits)

\* sys.float_info.max in quanta
MaxFinite == (Pow2(Precision) - 1) * Pow2(ExpRange)

\* float('inf'), float('-inf') and float('nan'): codes outside the finite range
PosInf == MaxFinite + 1
NegInf == 0 - PosInf
NaN == MaxFinite + 2

IsFinite(a) == a # NaN /\ a # PosInf /\ a # NegInf

Abs(a) == IF a < 0 THEN 0 - a ELSE a

\* the significands are the naturals below 2^Precision
SignificandLimit == Pow2(Precision)

\* number of low bits a magnitude q must drop to fit in Precision bits
RECURSIVE Shift(_)
Shift(q) == IF q < SignificandLimit THEN 0 ELSE 1 + Shift(q \div 2)

\* The float nearest to the rational num/den quanta (den > 0), ties to the
\* even significand, overflow to infinity: the rounding every float
\* operation ends with.
Round(num, den) ==
    LET a  == Abs(num)
        q  == a \div den
        r  == a % den
        s  == Pow2(Shift(q))
        m  == q \div s
        rn == (q % s) * den + r
        rd == s * den
        up == (2 * rn > rd) \/ (2 * rn = rd /\ m % 2 = 1)
        res == (IF up THEN m + 1 ELSE m) * s
        mag == IF res > MaxFinite THEN PosInf ELSE res
    IN IF num < 0 THEN 0 - mag ELSE mag

\* a float literal num/den, e.g. 2.5 is Lit(5, 2)
Lit(num, den) == Round(num * One, den)

\* float(k) for a small int k
FromInt(k) == Round(k * One, 1)

FNeg(a) == IF a = NaN THEN NaN ELSE 0 - a

\* a + b
FAdd(a, b) ==
    IF a = NaN \/ b = NaN THEN NaN
    ELSE IF ~IsFinite(a) THEN (IF b = 0 - a THEN NaN ELSE a)
    ELSE IF ~IsFinite(b) THEN b
    ELSE Round(a + b, 1)

\* a - b
FSub(a, b) == FAdd(a, FNeg(b))

\* a / b for b # 0 (every division of the program is guarded against a
\* zero divisor: line 57, line 81)
FDiv(a, b) ==
    IF a = NaN \/ b = NaN THEN NaN
    ELSE IF ~IsFinite(a) THEN (IF ~IsFinite(b) THEN NaN
                               ELSE IF b > 0 THEN a ELSE 0 - a)
    ELSE IF ~IsFinite(b) THEN 0
    ELSE IF b > 0 THEN Round(a * One, b) ELSE Round(0 - (a * One), 0 - b)

\* a < b
FLess(a, b) == a # NaN /\ b # NaN /\ a < b

\* a ** 2 raises OverflowError when the square of a finite a is out of range
PowOverflows(a) == IsFinite(a) /\ Round(a * a, One) = PosInf

\* a ** 2 when it does not raise
FSquare(a) ==
    IF a = NaN THEN NaN
    ELSE IF ~IsFinite(a) THEN PosInf
    ELSE Round(a * a, One)

\* floor of the square root of a natural number
RECURSIVE ISqrt(_)
ISqrt(k) == IF k < 2 THEN k
            ELSE LET h == 2 * ISqrt(k \div 4)
                 IN IF (h + 1) * (h + 1) <= k THEN h + 1 ELSE h

\* math.sqrt(a) for a >= 0: the float nearest to the root.  The root of a
\* quanta is sqrt(a * One) quanta; it is located between two neighbouring
\* floats lo < hi and compared with their midpoint.
FSqrt(a) ==
    IF a = NaN THEN NaN
    ELSE IF a = PosInf THEN PosInf
    ELSE LET k  == a * One
             f  == ISqrt(k)
             s  == Pow2(Shift(f))
             lo == (f \div s) * s
             hi == lo + s
             \* root > (lo + hi) / 2  <=>  4k > (lo + hi)^2
             above == 4 * k > (lo + hi) * (lo + hi)
             tie   == 4 * k = (lo + hi) * (lo + hi)
         IN IF lo * lo = k THEN lo
            ELSE IF above \/ (tie /\ (lo \div s) % 2 = 1) THEN hi ELSE lo

\* sum(values): Python's left fold of + from the int 0 (CPython 3.12 and
\* later add a compensation term to the fold, which is not modelled)
RECURSIVE FSum(_)
FSum(vs) == IF vs = <<>> THEN 0
            ELSE FAdd(FSum(SubSeq(vs, 1, Len(vs) - 1)), vs[Len(vs)])

----------------------------------------------------------------------------
(* Optional[float]: None is the empty tuple, a number v is <<v>>. *)

None == <<>>
Some(v) == <<v>>

----------------------------------------------------------------------------
(* The program. *)

\* Item(id, name, value)
Item(id, name, value) == [id |-> id, name |-> name, value |-> value]

\* Item.as_dict
as_dict(it) == [id |-> it.id, name |-> it.name, value |-> it.value]

\* [i.value for i in items]
Values(its) == [k \in 1..Len(its) |-> its[k].value]

\* normalize_values dividing by the number of items instead of the total
normalize_values_by_count(its) ==
    LET total == FSum(Values(its))
    IN IF total = 0 THEN its
       ELSE [k \in 1..Len(its) |->
                Item(its[k].id, its[k].name, FDiv(its[k].value, FromInt(Len(its))))]

\* normalize_values returning [] instead of the list when the total is 0
normalize_values_empty_on_zero(its) ==
    LET total == FSum(Values(its))
    IN IF total = 0 THEN <<>>
       ELSE [k \in 1..Len(its) |->
                Item(its[k].id, its[k].name, FDiv(its[k].value, total))]

\* normalize_values dividing by the negated total
normalize_values_negated(its) ==
    LET total == FSum(Values(its))
    IN IF total = 0 THEN its
       ELSE [k \in 1..Len(its) |->
                Item(its[k].id, its[k].name, FDiv(its[k].value, FNeg(total)))]

\* normalize_values(items): the list returned
normalize_values(its) ==
    LET total == FSum(Values(its))
    IN IF total = 0 THEN its
       ELSE [k \in 1..Len(its) |->
                Item(its[k].id, its[k].name, FDiv(its[k].value, total))]

\* sorted(items, key=lambda x: x.value, reverse=True): a stable sort, so
\* each item goes behind the items before it in the list that are not
\* smaller and ahead of those that are smaller
RECURSIVE SortedDesc(_)
SortedDesc(its) ==
    IF its = <<>> THEN <<>>
    ELSE LET front == SortedDesc(SubSeq(its, 1, Len(its) - 1))
             x     == its[Len(its)]
         IN SelectSeq(front, LAMBDA y : ~FLess(y.value, x.value))
              \o <<x>>
              \o SelectSeq(front, LAMBDA y : FLess(y.value, x.value))

\* s[:n] for n > 0
Take(s, n) == SubSeq(s, 1, IF n < Len(s) THEN n ELSE Len(s))

\* sorted(items, key=...)[::-1]: an ascending sort reversed, which turns
\* the order of equal values around
RECURSIVE SortedAscReversed(_)
SortedAscReversed(its) ==
    IF its = <<>> THEN <<>>
    ELSE LET front == SortedAscReversed(SubSeq(its, 1, Len(its) - 1))
             x     == its[Len(its)]
         IN SelectSeq(front, LAMBDA y : FLess(x.value, y.value))
              \o <<x>>
              \o SelectSeq(front, LAMBDA y : ~FLess(x.value, y.value))

\* top_n_by_value sorting ascending and reversing
top_n_by_value_reversed(its, n) ==
    IF n <= 0 THEN [ret |-> <<>>, items |-> its]
    ELSE [ret |-> Take(SortedAscReversed(its), n), items |-> its]

\* top_n_by_value sorting its argument in place (items.sort)
top_n_by_value_in_place(its, n) ==
    IF n <= 0 THEN [ret |-> <<>>, items |-> its]
    ELSE [ret |-> Take(SortedDesc(its), n), items |-> SortedDesc(its)]

\* top_n_by_value(items, n): the list returned, and the argument list as
\* the call leaves it
top_n_by_value(its, n) ==
    IF n <= 0 THEN [ret |-> <<>>, items |-> its]
    ELSE [ret |-> Take(SortedDesc(its), n), items |-> its]

\* what the st and out variables hold while no dict has been returned
NoDict == [count |-> 0 - 1, sum |-> 0, mean |-> None, stddev |-> None]

\* (v - mean) ** 2 for v in values
SquaredDeviations(values, mean) ==
    [k \in 1..Len(values) |-> FSquare(FSub(values[k], mean))]

\* stats dividing the squared deviations by count - 1 (the sample variance)
stats_sample_variance(its) ==
    LET count == Len(its)
        values == Values(its)
        s == FSum(values)
        mean == FDiv(s, FromInt(count))
        divisor == IF count > 1 THEN count - 1 ELSE 1
        variance == FDiv(FSum(SquaredDeviations(values, mean)), FromInt(divisor))
        stddev == FSqrt(variance)
    IN IF count = 0
       THEN [raised |-> "none",
             ret |-> [count |-> 0, sum |-> Lit(0, 1), mean |-> None, stddev |-> None]]
       ELSE IF \E k \in 1..count : PowOverflows(FSub(values[k], mean))
       THEN [raised |-> "OverflowError", ret |-> NoDict]
       ELSE [raised |-> "none",
             ret |-> [count |-> count, sum |-> s, mean |-> Some(mean),
                      stddev |-> Some(stddev)]]

\* stats(items): the dict returned, or the exception raised
stats(its) ==
    LET count == Len(its)
        values == Values(its)
        s == FSum(values)
        mean == FDiv(s, FromInt(count))
        variance == FDiv(FSum(SquaredDeviations(values, mean)), FromInt(count))
        stddev == FSqrt(variance)
    IN IF count = 0
       THEN [raised |-> "none",
             ret |-> [count |-> 0, sum |-> Lit(0, 1), mean |-> None, stddev |-> None]]
       ELSE IF \E k \in 1..count : PowOverflows(FSub(values[k], mean))
       THEN [raised |-> "OverflowError", ret |-> NoDict]
       ELSE [raised |-> "none",
             ret |-> [count |-> count, sum |-> s, mean |-> Some(mean),
                      stddev |-> Some(stddev)]]

\* build_example_items()
build_example_items ==
    << Item(1, "alpha", Lit(10, 1)),
       Item(2, "beta", Lit(5, 1)),
       Item(3, "gamma", Lit(0, 1)),
       Item(4, "delta", Lit(5, 2)),
       Item(5, "epsilon", Lit(15, 2)) >>

\* main computing the statistics of the top list
main_stats_of_top(top_arg, normalize_arg, json_arg) ==
    LET data == build_example_items
        working == IF normalize_arg THEN normalize_values(data) ELSE data
        top == top_n_by_value(working, top_arg).ret
        sres == stats(top)
        output == [top |-> [k \in 1..Len(top) |-> as_dict(top[k])],
                   stats |-> sres.ret]
    IN [raised |-> sres.raised, exit |-> 0, output |-> output,
        printed |-> IF json_arg THEN "json" ELSE "text"]

\* main taking the top list before it normalizes
main_top_of_raw_data(top_arg, normalize_arg, json_arg) ==
    LET data == build_example_items
        working == IF normalize_arg THEN normalize_values(data) ELSE data
        top == top_n_by_value(data, top_arg).ret
        sres == stats(working)
        output == [top |-> [k \in 1..Len(top) |-> as_dict(top[k])],
                   stats |-> sres.ret]
    IN [raised |-> sres.raised, exit |-> 0, output |-> output,
        printed |-> IF json_arg THEN "json" ELSE "text"]

\* main(argv) with argv parsed to args.top, args.normalize, args.json
main(top_arg, normalize_arg, json_arg) ==
    LET data == build_example_items
        working == IF normalize_arg THEN normalize_values(data) ELSE data
        top == top_n_by_value(working, top_arg).ret
        sres == stats(working)
        output == [top |-> [k \in 1..Len(top) |-> as_dict(top[k])],
                   stats |-> sres.ret]
    IN IF sres.raised # "none"
       THEN [raised |-> sres.raised, exit |-> 1, output |-> output,
             printed |-> "nothing"]
       ELSE [raised |-> "none", exit |-> 0, output |-> output,
             printed |-> IF json_arg THEN "json" ELSE "text"]

----------------------------------------------------------------------------
(* The state machine.  A process either runs main (the entry point, line   *)
(* 139), which builds the sample items itself and then exits, or calls     *)
(* the functions on a list of items it has drawn, in the order main calls  *)
(* them: normalize_values at most once and first, then top_n_by_value and  *)
(* stats.                                                                  *)

\* the float values items are drawn from: 0.0, 1.0, -1.0, 3.0, 2.5, the
\* smallest positive float and the largest finite float
InputValues ==
    {Lit(0, 1), Lit(1, 1), Lit(0 - 1, 1), Lit(3, 1), Lit(5, 2), 1, MaxFinite}

NameOf(k) == <<"a", "b", "c", "d", "e", "f">>[k]

\* the lists of at most MaxLen items, ids 1, 2, ... in list order
InputLists ==
    UNION { { [k \in 1..len |-> Item(k, NameOf(k), vs[k])] :
                vs \in [1..len -> InputValues] } : len \in 0..MaxLen }

\* the --top values main is run with
TopArgs == (0 - 1)..MaxTop

NoCall == [op |-> "none", arg |-> <<>>, n |-> 0, normalize |-> FALSE, json |-> FALSE]

NoOutput == [raised |-> "none", exit |-> 0 - 1,
             output |-> [top |-> <<>>, stats |-> NoDict], printed |-> "nothing"]

Init ==
    /\ orig \in InputLists
    /\ items = orig
    /\ normalized = FALSE
    /\ call = NoCall
    /\ ret = <<>>
    /\ st = NoDict
    /\ raised = "none"
    /\ out = NoOutput

\* items = normalize_values(items)
CallNormalize ==
    /\ call = NoCall
    /\ call' = [NoCall EXCEPT !.op = "normalize", !.arg = items]
    /\ ret' = normalize_values(items)
    /\ items' = ret'
    /\ normalized' = TRUE
    /\ st' = NoDict
    /\ raised' = "none"
    /\ out' = NoOutput
    /\ UNCHANGED orig

\* top_n_by_value(items, n)
CallTopN ==
    \E n \in (0 - 1)..(MaxLen + 1) :
        LET r == top_n_by_value(items, n)
        IN /\ call.op # "main"
           /\ call' = [NoCall EXCEPT !.op = "top_n", !.arg = items, !.n = n]
           /\ ret' = r.ret
           /\ items' = r.items
           /\ st' = NoDict
           /\ raised' = "none"
           /\ out' = NoOutput
           /\ UNCHANGED <<orig, normalized>>

\* stats(items)
CallStats ==
    LET r == stats(items)
    IN /\ call.op # "main"
       /\ call' = [NoCall EXCEPT !.op = "stats", !.arg = items]
       /\ st' = r.ret
       /\ raised' = r.raised
       /\ ret' = <<>>
       /\ out' = NoOutput
       /\ UNCHANGED <<orig, items, normalized>>

\* what main does for each command line
MainRuns ==
    [a \in TopArgs \X BOOLEAN \X BOOLEAN |-> main(a[1], a[2], a[3])]

\* main(argv): builds the sample items itself
RunMain ==
    \E top_arg \in TopArgs, normalize_arg \in BOOLEAN, json_arg \in BOOLEAN :
        LET r == MainRuns[<<top_arg, normalize_arg, json_arg>>]
        IN /\ call = NoCall
           /\ call' = [op |-> "main", arg |-> build_example_items, n |-> top_arg,
                       normalize |-> normalize_arg, json |-> json_arg]
           /\ out' = r
           /\ raised' = r.raised
           /\ orig' = build_example_items
           /\ items' = IF normalize_arg THEN normalize_values(build_example_items)
                       ELSE build_example_items
           /\ normalized' = normalize_arg
           /\ ret' = <<>>
           /\ st' = NoDict

Next == CallNormalize \/ CallTopN \/ CallStats \/ RunMain

Spec == Init /\ [][Next]_vars

----------------------------------------------------------------------------
(* Properties. *)

Ids(its) == [k \in 1..Len(its) |-> its[k].id]
Names(its) == [k \in 1..Len(its) |-> its[k].name]
Min(a, b) == IF a < b THEN a ELSE b

\* the total normalize_values computes for the list it was called on
ArgTotal == FSum(Values(call.arg))

\* C1: when the values of the list sum to a nonzero total, normalize_values
\* returns a list of the same length and order whose element at each
\* position keeps the id and name of the input element and has the input
\* value divided by the total.
C1_NormalizeDividesByTotal ==
    (call.op = "normalize" /\ ArgTotal # 0) =>
        /\ raised = "none"
        /\ Len(ret) = Len(call.arg)
        /\ \A k \in 1..Len(call.arg) :
              /\ ret[k].id = call.arg[k].id
              /\ ret[k].name = call.arg[k].name
              /\ ret[k].value = FDiv(call.arg[k].value, ArgTotal)

\* C1 witness: a call on at least two items with a total that is neither 0
\* nor 1, where some quotient had to be rounded
C1_Witness ==
    /\ call.op = "normalize"
    /\ Len(call.arg) >= 2
    /\ IsFinite(ArgTotal) /\ ArgTotal # 0 /\ ArgTotal # One
    /\ \E k \in 1..Len(ret) :
          /\ ret[k].value # call.arg[k].value
          /\ ret[k].value * ArgTotal # call.arg[k].value * One

\* C2: when the values sum to exactly 0, normalize_values raises nothing and
\* returns a list equal element by element to its input.
C2_ZeroTotalUnchanged ==
    (call.op = "normalize" /\ ArgTotal = 0) =>
        /\ raised = "none"
        /\ ret = call.arg

\* C2 witness: a call on a positive and a negative value that cancel
C2_Witness ==
    /\ call.op = "normalize"
    /\ ArgTotal = 0
    /\ \E i, j \in 1..Len(call.arg) :
          call.arg[i].value > 0 /\ call.arg[j].value < 0
    /\ ret = call.arg

\* the tolerance C3 allows the sum of the normalized values: a quarter
Tolerance == One \div 4

\* C3: for a non-empty list with a nonzero total, the values of the list
\* normalize_values returns sum to 1.0 within the tolerance.
C3_NormalizedSumIsOne ==
    (call.op = "normalize" /\ call.arg # <<>> /\ ArgTotal # 0) =>
        LET total == FSum(Values(ret))
        IN IsFinite(total) /\ Abs(total - One) <= Tolerance

\* C4: top_n_by_value returns [] for n <= 0, and otherwise min(n, len)
\* records in non-increasing order of value, which are the records of the
\* largest values, ties kept in input order.  (The ids of a drawn list are
\* the positions in it, and normalize_values keeps them.)
C4_TopNSortedStable ==
    (call.op = "top_n") =>
        IF call.n <= 0 THEN ret = <<>>
        ELSE /\ Len(ret) = Min(call.n, Len(call.arg))
             /\ \A k \in 1..Len(ret) :
                   ret[k].id \in 1..Len(call.arg) /\ ret[k] = call.arg[ret[k].id]
             /\ \A i, j \in 1..Len(ret) :
                   i < j => /\ ~FLess(ret[i].value, ret[j].value)
                            /\ ret[i].id # ret[j].id
                            /\ (ret[i].value = ret[j].value => ret[i].id < ret[j].id)
             /\ \A p \in 1..Len(call.arg) :
                   (\A k \in 1..Len(ret) : ret[k].id # p) =>
                       \A k \in 1..Len(ret) :
                           /\ ~FLess(ret[k].value, call.arg[p].value)
                           /\ (ret[k].value = call.arg[p].value => ret[k].id < p)

\* C4 witness: a call with 0 < n < len on a list with a tie at the cut, the
\* larger value behind the tie in the input
C4_Witness ==
    /\ call.op = "top_n"
    /\ call.n = 2 /\ Len(call.arg) = 3
    /\ call.arg[1].value = call.arg[2].value
    /\ FLess(call.arg[1].value, call.arg[3].value)
    /\ Ids(ret) = <<3, 1>>

\* C5: stats of the empty list is count 0, sum 0.0, mean None, stddev None
\* and raises nothing; for every non-empty list stats returns and mean and
\* stddev are numbers.
C5_UndefinedOnlyWhenEmpty ==
    (call.op = "stats") =>
        /\ raised = "none"
        /\ (call.arg = <<>> =>
               st = [count |-> 0, sum |-> Lit(0, 1), mean |-> None, stddev |-> None])
        /\ (call.arg # <<>> => st.mean # None /\ st.stddev # None)

\* C5 witness: stats called on the empty list
C5_Witness ==
    /\ call.op = "stats" /\ call.arg = <<>>
    /\ st.count = 0 /\ st.mean = None /\ st.stddev = None

\* the population variance of a list of values: the mean of the squared
\* deviations from the mean
PopulationVariance(values) ==
    LET mean == FDiv(FSum(values), FromInt(Len(values)))
    IN FDiv(FSum([k \in 1..Len(values) |-> FSquare(FSub(values[k], mean))]),
            FromInt(Len(values)))

\* sd is the float nearest to the square root of variance (both in quanta,
\* spacing 1 around sd): the square of sd is the variance up to rounding
RootOf(sd, variance) ==
    IF ~IsFinite(variance) THEN sd = variance
    ELSE /\ sd >= 0
         /\ (sd > 0 => (2 * sd - 1) * (2 * sd - 1) <= 4 * variance * One)
         /\ 4 * variance * One <= (2 * sd + 1) * (2 * sd + 1)

\* what stats returns for a non-empty list when it returns
StatsOfNonEmpty(its) ==
    /\ st.count = Len(its)
    /\ st.sum = FSum(Values(its))
    /\ st.mean = Some(FDiv(FSum(Values(its)), FromInt(Len(its))))
    /\ st.stddev # None
    /\ RootOf(st.stddev[1], PopulationVariance(Values(its)))

\* the dict main emits for the sample values 10, 5, 0, 2.5, 7.5 when the
\* square of stddev is variance
SampleStats(variance) ==
    [count |-> 5, sum |-> Lit(25, 1), mean |-> Some(Lit(5, 1)),
     stddev |-> Some(FSqrt(variance))]

WorkingSet == IF call.normalize THEN normalize_values(build_example_items)
              ELSE build_example_items

\* C7: in every run of main the statistics emitted are those of the full
\* working set, never of the top list: the count is 5 and the sum is the
\* sum of the 5 values of the working set, whatever the top count; the top
\* list is taken from the same working set.
C7_StatsOverWorkingSet ==
    (call.op = "main") =>
        /\ raised = "none" /\ out.exit = 0
        /\ out.output.stats.count = 5
        /\ out.output.stats.sum = FSum(Values(WorkingSet))
        /\ out.output.stats = stats(WorkingSet).ret
        /\ Len(out.output.top) = IF call.n <= 0 THEN 0 ELSE Min(call.n, 5)
        /\ \A k \in 1..Len(out.output.top) :
              /\ out.output.top[k].id \in 1..5
              /\ out.output.top[k] = as_dict(WorkingSet[out.output.top[k].id])

\* C7 witness: a run with the normalize flag and a top count of 0, so that
\* the top list is empty and the statistics still count 5 records
C7_Witness ==
    /\ call.op = "main" /\ call.normalize /\ call.n = 0
    /\ out.output.top = <<>>
    /\ out.output.stats.count = 5

\* the sample records in descending order of value
RankedNames == <<"alpha", "epsilon", "beta", "delta", "gamma">>
RankedValues == <<Lit(10, 1), Lit(15, 2), Lit(5, 1), Lit(5, 2), Lit(0, 1)>>

\* C8: for every top count n >= 1 main emits the first min(n, 5) records of
\* alpha, epsilon, beta, delta, gamma, with the sample values, or with the
\* sample values divided by 25 when the normalize flag is set: alpha(10.0),
\* epsilon(7.5), beta(5.0) for n = 3, alpha(0.4), epsilon(0.3) for n = 2
\* with normalization.
C8_SampleTopList ==
    (call.op = "main" /\ call.n >= 1) =>
        /\ Len(out.output.top) = Min(call.n, 5)
        /\ \A k \in 1..Len(out.output.top) :
              /\ out.output.top[k].name = RankedNames[k]
              /\ out.output.top[k].value =
                    IF call.normalize THEN FDiv(RankedValues[k], Lit(25, 1))
                    ELSE RankedValues[k]
        /\ (call.n = 3 /\ ~call.normalize) =>
               Values(out.output.top) = <<Lit(10, 1), Lit(15, 2), Lit(5, 1)>>
        /\ (call.n = 2 /\ call.normalize) =>
               Values(out.output.top) = <<Lit(2, 5), Lit(3, 10)>>

\* C8 witness: the run with normalization and a top count of 2
C8_Witness ==
    /\ call.op = "main" /\ call.normalize /\ call.n = 2
    /\ Names(out.output.top) = <<"alpha", "epsilon">>
    /\ out.output.top[1].value > out.output.top[2].value
    /\ out.output.top[2].value > 0

\* C9: top_n_by_value leaves the list it is given as it was: the same
\* records in the same order after the call as before it.
C9_TopNKeepsInput ==
    (call.op = "top_n") => items = call.arg

\* C9 witness: a call with n > 0 on a list that is not in descending order
C9_Witness ==
    /\ call.op = "top_n" /\ call.n >= 1
    /\ Len(call.arg) >= 2
    /\ SortedDesc(call.arg) # call.arg
    /\ ret # <<>>

\* the total of the list a normalized list was made from
OrigTotal == FSum(Values(orig))

\* top_n_by_value of the list before its normalization, for the same n
TopOfOrig == top_n_by_value(orig, call.n).ret

\* C10 as claimed: when the total is strictly positive (and finite), the
\* top list of the normalized list has the record ids of the top list of
\* the list itself, in the same order.
C10_NormalizeKeepsRanking ==
    (call.op = "top_n" /\ normalized /\ IsFinite(OrigTotal) /\ OrigTotal > 0) =>
        Ids(ret) = Ids(TopOfOrig)

\* normalization has kept the records of different values apart
KeepsDistinct ==
    \A i, j \in 1..Len(orig) :
        orig[i].value # orig[j].value => items[i].value # items[j].value

\* C10 as amended: when the total is strictly positive, the top list of the
\* normalized list has the values of the top list of the list itself, each
\* divided by the total, in the same order; it has the same record ids in
\* the same order when no two records of different values have got the
\* same normalized value.
C10_NormalizeKeepsRankingOfValues ==
    (call.op = "top_n" /\ normalized /\ OrigTotal # NaN /\ OrigTotal > 0) =>
        /\ Len(ret) = Len(TopOfOrig)
        /\ \A k \in 1..Len(ret) : ret[k].value = FDiv(TopOfOrig[k].value, OrigTotal)
        /\ KeepsDistinct => Ids(ret) = Ids(TopOfOrig)

\* C10 witness: the top list of a normalized list of three different
\* values, not in descending order, that normalization has kept apart
C10_Witness ==
    /\ call.op = "top_n" /\ normalized /\ call.n = 3
    /\ OrigTotal # NaN /\ OrigTotal > 0 /\ OrigTotal # One
    /\ Len(orig) = 3
    /\ orig[1].value # orig[2].value /\ orig[2].value # orig[3].value
    /\ orig[1].value # orig[3].value
    /\ KeepsDistinct
    /\ Ids(ret) # <<1, 2, 3>>
    /\ Ids(ret) = Ids(TopOfOrig)

====
